---- MODULE Spec2Model ----
(***************************************************************************)
(* OBSDesyncDetector.py: a poll thread samples performance counters into a *)
(* rolling history, evaluates threshold rules and logs alerts, while the   *)
(* host thread (OBS callbacks) updates the settings, starts and stops the  *)
(* poll thread and reads the shared state.  No lock protects the globals,  *)
(* so the poll thread is modelled statement by statement.                  *)
(*                                                                         *)
(* Units: metric values and thresholds are integers in thousandths (of a   *)
(* percent or of a millisecond); formatted values ("{:.2f}") are integers  *)
(* in hundredths; times and check_interval are whole seconds.              *)
(***************************************************************************)
EXTENDS Integers, Sequences, FiniteSets, Bags, TLC

\* ------------------------------------------------------------- bounds
\* Poll ticks started over a run (all threads together).
MaxTicks == 2
\* Poll ticks over a run of the poll loop left alone by the host.
MaxLoopTicks == 9
\* Poll threads created over a run.
MaxThreads == 2
\* Poll ticks over a run of the poll loop with failing statements.
MaxFailTicks == 6
\* Poll ticks over a run with the user at the settings panel.
MaxUserTicks == 6
\* Poll ticks over a run of the poll loop with drifting readings.
MaxDriftTicks == 8

\* --------------------------------------------------- program constants
\* update_history: "Trim history to 10 minutes", 10 * 60 seconds.
HistorySeconds == 600
\* Mutant of MinSamples: detect_issues evaluates from 3 samples on.
MinSamples_three == 5 - 2

\* detect_issues: "Need some data to analyze".
MinSamples == 5
\* should_alert: "Alert once per 5 minutes for the same issue".
AlertCooldown == 300
\* monitoring_thread_function: "Wait before retrying".
RetryDelay == 5

ThreadIds == 1..MaxThreads
\* monitor_thread = None
NoThread == 0

\* The keys of the history dict, in insertion (iteration) order.
HistoryKeys ==
  <<"timestamp", "dropped_frames", "total_frames", "render_time",
    "encoding_time", "cpu_usage", "memory_usage">>

\* The keys of config["alert_thresholds"], in the order script_update writes
\* them and detect_issues reads them.
ThresholdKeys ==
  <<"dropped_frames_percent", "render_lag_ms", "encoding_lag_ms",
    "cpu_percent", "memory_percent">>

\* The f-string of each check of detect_issues (prefix and unit).
IssueLabels ==
  <<"Frame drops detected: %", "High render time: ms", "High encoding time: ms",
    "High CPU usage: %", "High memory usage: %">>

Max(a, b) == IF a >= b THEN a ELSE b

\* Mutant of LastN: seq[:n], the oldest elements are kept.
LastN_keepsOldest(seq, n) ==
  IF n = 0 \/ n >= Len(seq) THEN seq ELSE SubSeq(seq, 1, n)

\* seq[-n:] of Python: the last n elements; the whole list when n = 0 or
\* n >= len(seq).
LastN(seq, n) ==
  IF n = 0 \/ n >= Len(seq) THEN seq
  ELSE SubSeq(seq, Len(seq) - n + 1, Len(seq))

\* "{v:.2f}": a value in thousandths rounded to hundredths.
Format2(v) == (v + 5) \div 10

\* dropped / max(1, total) * 100, in thousandths of a percent.
DroppedPercent(dropped, total) == (dropped * 100000) \div Max(1, total)

\* An issue description: the label of the check and the formatted value.
IssueText(k, v) == <<IssueLabels[k], Format2(v)>>

\* int(10 * 60 / config["check_interval"])
MaxHistory(check_interval) == HistorySeconds \div check_interval

\* ------------------------------------------------------------- state
VARIABLES
  config,           \* the config dict
  history,          \* the history dict: seven parallel lists
  monitor_thread,   \* NoThread or the id of the Thread object
  stop_thread,      \* the stop flag
  known_issues,     \* set of issue texts
  last_alert_time,  \* dict: issue text -> time of the last should_alert grant
  dock,             \* whether create_dock obtained a widget
  now,              \* the wall clock, seconds
  threads,          \* per poll thread: position and locals
  host,             \* the host thread: position and locals of its callback
  phase,            \* "new", "loaded", "unloaded": script_load / script_unload
  ticks,            \* ticks started so far
  warning_log       \* log: issue text -> time of its last "ISSUE DETECTED" line

globals == <<config, history, monitor_thread, stop_thread, known_issues,
             last_alert_time, dock>>
vars == <<config, history, monitor_thread, stop_thread, known_issues,
          last_alert_time, dock, now, threads, host, phase, ticks, warning_log>>

\* A poll thread's locals before it runs and after each tick.
FreshLocals ==
  [ render_time |-> 0, encoding_time |-> 0, ts |-> 0, output |-> FALSE,
    frames_dropped |-> 0, total_frames |-> 0, cpu_percent |-> 0, memory_percent |-> 0,
    max_history |-> 0, k |-> 0, metrics |-> <<>>, issues |-> <<>>, i |-> 0,
    wake_at |-> 0,
    \* the log lines of the tick: "ISSUE DETECTED", "ISSUE RESOLVED", errors
    warned |-> <<>>, resolved |-> EmptyBag, errors |-> 0,
    \* the tick's calls of should_alert: the issue, its entry before the call
    \* (-1: none) and the answer
    calls |-> <<>>,
    \* known_issues when the tick began, history when update_history began
    known_on_entry |-> {}, history_on_entry |-> <<>> ]

ThreadRec(pc) == [pc |-> pc] @@ FreshLocals

\* The host thread between two callbacks.  log holds the lines the running
\* callback wrote with obs.script_log, as <<level, message>>.
HostIdle ==
  [pc |-> "idle", settings |-> <<>>, prev_enabled |-> FALSE, k |-> 0, ret |-> "",
   log |-> <<>>,
   \* generate_performance_report: the sum just computed and the number of
   \* samples it ran over, the averages computed so far, the report lines,
   \* whether the file was written, whether the call ended by an exception
   acc |-> 0, summed |-> 0, avg |-> <<>>, report |-> <<>>, saved |-> FALSE,
   raised |-> FALSE]

Alive(t) == threads[t].pc \notin {"unborn", "dead"}

\* Mutant of MonitorAlive: "monitor_thread is not None" alone.
MonitorAlive_notNone == monitor_thread # NoThread

\* monitor_thread is not None and monitor_thread.is_alive()
MonitorAlive == monitor_thread # NoThread /\ Alive(monitor_thread)

Init ==
  /\ config = [ enabled |-> FALSE, check_interval |-> 1,
                alert_thresholds |->
                  [ dropped_frames_percent |-> 1000, render_lag_ms |-> 15000,
                    encoding_lag_ms |-> 20000, cpu_percent |-> 80000,
                    memory_percent |-> 70000 ] ]
  /\ history = [ key \in { HistoryKeys[j] : j \in 1..Len(HistoryKeys) } |-> <<>> ]
  /\ monitor_thread = NoThread
  /\ stop_thread = FALSE
  /\ known_issues = {}
  /\ last_alert_time = <<>>
  /\ dock = FALSE
  /\ now = 0
  /\ threads = [ t \in ThreadIds |-> ThreadRec("unborn") ]
  /\ host = HostIdle
  /\ phase = "new"
  /\ ticks = 0
  /\ warning_log = <<>>

\* ------------------------------------------------- the poll thread
\* One action per statement of monitoring_thread_function and of the
\* functions it calls that reads or writes a global.

\* Mutant of should_alert: an entry exactly 300 seconds old still
\* suppresses the alert.
should_alert_inclusive(issue, times, t) ==
  IF issue \in DOMAIN times /\ t - times[issue] <= AlertCooldown
  THEN [alert |-> FALSE, times |-> times]
  ELSE [alert |-> TRUE,
        times |-> [x \in DOMAIN times \cup {issue} |->
                     IF x = issue THEN t ELSE times[x]]]

\* should_alert(issue) at time t with the dict times: the answer and the
\* dict afterwards.
should_alert(issue, times, t) ==
  IF issue \in DOMAIN times /\ t - times[issue] < AlertCooldown
  THEN [alert |-> FALSE, times |-> times]
  ELSE [alert |-> TRUE,
        times |-> [x \in DOMAIN times \cup {issue} |->
                     IF x = issue THEN t ELSE times[x]]]

\* The value update_history appends to the k-th list.
SampleValue(th, k) ==
  CASE k = 1 -> th.ts
    [] k = 2 -> th.frames_dropped
    [] k = 3 -> th.total_frames
    [] k = 4 -> th.render_time
    [] k = 5 -> th.encoding_time
    [] k = 6 -> th.cpu_percent
    [] k = 7 -> th.memory_percent

\* "while not stop_thread and config["enabled"]": enter a tick or leave.
LoopCheck(t) ==
  /\ threads[t].pc = "loop"
  /\ IF ~stop_thread /\ config.enabled
     THEN /\ ticks' = ticks + 1
          /\ threads' = [threads EXCEPT ![t] =
               [ThreadRec("stats") EXCEPT !.known_on_entry = known_issues]]
     ELSE /\ ticks' = ticks
          /\ threads' = [threads EXCEPT ![t] = ThreadRec("dead")]
  /\ UNCHANGED <<globals, now, host, phase, warning_log>>

\* Mutant of EncodingTime: an estimate of the encoding time is recorded.
EncodingTime_estimated == 20 * 1000 + 1

\* "encoding_time": 0  # We need to estimate this
EncodingTime == 0

\* stats = {"render_time": obs_get_average_frame_time_ns() / 1000000,
\*          "encoding_time": 0}
GetStats(t, R) ==
  /\ threads[t].pc = "stats"
  /\ \E r \in R :
       threads' = [threads EXCEPT ![t].pc = "query",
                                  ![t].render_time = r.render_time,
                                  ![t].encoding_time = EncodingTime]
  /\ UNCHANGED <<globals, now, host, phase, ticks, warning_log>>

\* Mutant of FramesRead: the counters are read whether or not the output
\* was found.
FramesRead_ignoresOutput(r) ==
  [frames_dropped |-> r.frames_dropped, total_frames |-> r.total_frames]

\* "if output: frames_dropped = ...; total_frames = ... else: frames_dropped
\* = 0; total_frames = 1"
FramesRead(r) ==
  IF r.output
  THEN [frames_dropped |-> r.frames_dropped, total_frames |-> r.total_frames]
  ELSE [frames_dropped |-> 0, total_frames |-> 1]

\* update_history, up to "Add to history": the clock, the stream output's
\* counters (0 and 1 when there is no output), the process statistics.
QueryMetrics(t, R) ==
  /\ threads[t].pc = "query"
  /\ \E r \in R :
       /\ r.render_time = threads[t].render_time
       /\ threads' = [threads EXCEPT
            ![t].pc = "append", ![t].k = 1, ![t].ts = now,
            ![t].output = r.output,
            ![t].frames_dropped = FramesRead(r).frames_dropped,
            ![t].total_frames = FramesRead(r).total_frames,
            ![t].cpu_percent = r.cpu_percent,
            ![t].memory_percent = r.memory_percent,
            ![t].history_on_entry = history]
  /\ UNCHANGED <<globals, now, host, phase, ticks, warning_log>>

\* history[key].append(value), one list per step.
AppendSample(t) ==
  /\ threads[t].pc = "append"
  /\ LET th == threads[t]
         key == HistoryKeys[th.k]
     IN /\ history' = [history EXCEPT ![key] = Append(@, SampleValue(th, th.k))]
        /\ threads' = IF th.k < Len(HistoryKeys)
                         THEN [threads EXCEPT ![t].k = th.k + 1]
                         ELSE [threads EXCEPT ![t].pc = "max_history", ![t].k = 0]
  /\ UNCHANGED <<config, monitor_thread, stop_thread, known_issues,
                 last_alert_time, dock, now, host, phase, ticks, warning_log>>

\* max_history = int(10 * 60 / config["check_interval"]);
\* if len(history["timestamp"]) > max_history: ...
ComputeMaxHistory(t) ==
  /\ threads[t].pc = "max_history"
  /\ LET m == MaxHistory(config.check_interval)
     IN threads' = IF Len(history["timestamp"]) > m
                     THEN [threads EXCEPT ![t].pc = "trim", ![t].k = 1,
                                          ![t].max_history = m]
                     ELSE [threads EXCEPT ![t].pc = "detect",
                                          ![t].max_history = m]
  /\ UNCHANGED <<globals, now, host, phase, ticks, warning_log>>

\* for key in history: history[key] = history[key][-max_history:]
TrimHistory(t) ==
  /\ threads[t].pc = "trim"
  /\ LET th == threads[t]
         key == HistoryKeys[th.k]
     IN /\ history' = [history EXCEPT ![key] = LastN(@, th.max_history)]
        /\ threads' = IF th.k < Len(HistoryKeys)
                         THEN [threads EXCEPT ![t].k = th.k + 1]
                         ELSE [threads EXCEPT ![t].pc = "detect", ![t].k = 0]
  /\ UNCHANGED <<config, monitor_thread, stop_thread, known_issues,
                 last_alert_time, dock, now, host, phase, ticks, warning_log>>

\* detect_issues: "if len(history["timestamp"]) < 5: return []", else the
\* metrics of the most recent sample; a list that is empty raises IndexError.
DetectBegin(t) ==
  /\ threads[t].pc = "detect"
  /\ LET last(key) == history[key][Len(history[key])]
     IN threads' =
          IF Len(history["timestamp"]) < MinSamples
          THEN [threads EXCEPT ![t].pc = "alert", ![t].i = 1, ![t].issues = <<>>]
          ELSE IF \E j \in 2..Len(HistoryKeys) : history[HistoryKeys[j]] = <<>>
          THEN [threads EXCEPT ![t].pc = "except"]
          ELSE [threads EXCEPT
                 ![t].pc = "compare", ![t].k = 1, ![t].issues = <<>>,
                 ![t].metrics =
                   << DroppedPercent(last("dropped_frames"), last("total_frames")),
                      last("render_time"), last("encoding_time"),
                      last("cpu_usage"), last("memory_usage") >>]
  /\ UNCHANGED <<globals, now, host, phase, ticks, warning_log>>

\* Mutant of Exceeds: a metric equal to its threshold is flagged.
Exceeds_orEqual(v, limit) == v >= limit

\* "<metric> > thresholds[<key>]"
Exceeds(v, limit) == v > limit

\* "if <metric> > thresholds[<key>]: issues.append(f"...")", one check per
\* step: thresholds is the dict script_update writes, read at each check.
CompareThreshold(t) ==
  /\ threads[t].pc = "compare"
  /\ LET th == threads[t]
         v == th.metrics[th.k]
         found == IF Exceeds(v, config.alert_thresholds[ThresholdKeys[th.k]])
                    THEN Append(th.issues, IssueText(th.k, v))
                    ELSE th.issues
     IN threads' = IF th.k < Len(ThresholdKeys)
                     THEN [threads EXCEPT ![t].k = th.k + 1, ![t].issues = found]
                     ELSE [threads EXCEPT ![t].pc = "alert", ![t].k = 0,
                                          ![t].i = 1, ![t].issues = found,
                                          ![t].metrics = <<>>]
  /\ UNCHANGED <<globals, now, host, phase, ticks, warning_log>>

\* Mutant of Consults: should_alert is asked about every issue (no
\* short-circuit on an issue that is not known).
Consults_always(issue, known) == TRUE

\* "issue not in known_issues or should_alert(issue)": should_alert is
\* called only for an issue that is in known_issues.
Consults(issue, known) == issue \in known

\* One iteration of "for issue in issues: if issue not in known_issues or
\* should_alert(issue): <log the warning>; known_issues.add(issue)".
AlertIssue(t) ==
  /\ threads[t].pc = "alert"
  /\ threads[t].i <= Len(threads[t].issues)
  /\ LET th == threads[t]
         issue == th.issues[th.i]
         asked == Consults(issue, known_issues)
         answer == should_alert(issue, last_alert_time, now)
         warn == ~asked \/ answer.alert
     IN /\ last_alert_time' = IF asked THEN answer.times ELSE last_alert_time
        /\ known_issues' = IF warn THEN known_issues \cup {issue} ELSE known_issues
        /\ warning_log' = IF warn
                            THEN [x \in DOMAIN warning_log \cup {issue} |->
                                    IF x = issue THEN now ELSE warning_log[x]]
                            ELSE warning_log
        /\ threads' = [threads EXCEPT
             ![t].i = th.i + 1,
             ![t].warned = IF warn THEN Append(@, issue) ELSE @,
             ![t].calls =
               IF asked
               THEN Append(@, [ issue |-> issue, alert |-> answer.alert,
                                before |-> IF issue \in DOMAIN last_alert_time
                                             THEN last_alert_time[issue]
                                             ELSE -1 ])
               ELSE @]
  /\ UNCHANGED <<config, history, monitor_thread, stop_thread, dock, now, host,
                 phase, ticks>>

\* Mutant of ResolvedIssues: the difference taken the other way round.
ResolvedIssues_swapped(known, current) == current \ known

\* resolved_issues = known_issues - current_issue_texts
ResolvedIssues(known, current) == known \ current

\* "Remove resolved issues": log each resolved issue, then
\* known_issues = current_issue_texts.
ResolveIssues(t) ==
  /\ threads[t].pc = "alert"
  /\ threads[t].i > Len(threads[t].issues)
  /\ LET th == threads[t]
         current_issue_texts == { th.issues[j] : j \in 1..Len(th.issues) }
         resolved_issues == ResolvedIssues(known_issues, current_issue_texts)
     IN /\ known_issues' = current_issue_texts
        /\ threads' = [threads EXCEPT ![t].pc = "dock", ![t].i = 0,
                                      ![t].resolved = SetToBag(resolved_issues)]
  /\ UNCHANGED <<config, history, monitor_thread, stop_thread, last_alert_time,
                 dock, now, host, phase, ticks, warning_log>>

\* update_dock_ui(), then time.sleep(config["check_interval"]).
DockAndSleep(t) ==
  /\ threads[t].pc = "dock"
  /\ threads' = [threads EXCEPT ![t].pc = "sleeping",
                                ![t].wake_at = now + config.check_interval]
  /\ UNCHANGED <<globals, now, host, phase, ticks, warning_log>>

\* A call into the host or the process library raises inside the tick.
TickFails(t) ==
  /\ threads[t].pc \in {"stats", "query", "dock"}
  /\ threads' = [threads EXCEPT ![t].pc = "except"]
  /\ UNCHANGED <<globals, now, host, phase, ticks, warning_log>>

\* The statement at hand raises, whichever statement of the tick it is: a
\* metrics query, a list operation, a log call, the dock update, the sleep.
StepFails(t) ==
  /\ threads[t].pc \in {"stats", "query", "append", "max_history", "trim",
                        "detect", "compare", "alert", "dock"}
  /\ threads' = [threads EXCEPT ![t].pc = "except"]
  /\ UNCHANGED <<globals, now, host, phase, ticks, warning_log>>

\* Mutant of HandleError: the exception ends the thread (the try statement
\* around the loop instead of inside it).
HandleError_exits(t) ==
  /\ threads[t].pc = "except"
  /\ threads' = [threads EXCEPT ![t] = ThreadRec("dead")]
  /\ UNCHANGED <<globals, now, host, phase, ticks, warning_log>>

\* "except Exception as e": log the error, time.sleep(5).
HandleError(t) ==
  /\ threads[t].pc = "except"
  /\ threads' = [threads EXCEPT ![t].pc = "sleeping", ![t].errors = @ + 1,
                                ![t].wake_at = now + RetryDelay]
  /\ UNCHANGED <<globals, now, host, phase, ticks, warning_log>>

\* time.sleep returns: at least the requested time has passed, and maybe
\* `late` seconds more.
Wake(t, late) ==
  /\ threads[t].pc = "sleeping"
  /\ now' = Max(now, threads[t].wake_at) + late
  /\ threads' = [threads EXCEPT ![t].pc = "loop", ![t].wake_at = 0]
  /\ UNCHANGED <<globals, host, phase, ticks, warning_log>>

\* --------------------------------------------------- the host thread
\* The callbacks OBS invokes on its own thread, one at a time.

\* script_load: create_dock(); the widget may not be obtained.
ScriptLoad(D) ==
  /\ phase = "new"
  /\ phase' = "loaded"
  /\ \E d \in D : dock' = d
  /\ UNCHANGED <<config, history, monitor_thread, stop_thread, known_issues,
                 last_alert_time, now, threads, host, ticks, warning_log>>

\* script_update(settings): prev_enabled = config["enabled"]
ScriptUpdate(S) ==
  /\ phase = "loaded"
  /\ host.pc = "idle"
  /\ \E s \in S :
       host' = [host EXCEPT !.pc = "set_enabled", !.settings = s,
                            !.prev_enabled = config.enabled]
  /\ UNCHANGED <<globals, now, threads, phase, ticks, warning_log>>

\* config["enabled"] = obs_data_get_bool(settings, "enabled")
SetEnabled ==
  /\ host.pc = "set_enabled"
  /\ config' = [config EXCEPT !.enabled = host.settings.enabled]
  /\ host' = [host EXCEPT !.pc = "set_interval"]
  /\ UNCHANGED <<history, monitor_thread, stop_thread, known_issues,
                 last_alert_time, dock, now, threads, phase, ticks, warning_log>>

\* config["check_interval"] = obs_data_get_double(settings, "check_interval")
SetInterval ==
  /\ host.pc = "set_interval"
  /\ config' = [config EXCEPT !.check_interval = host.settings.check_interval]
  /\ host' = [host EXCEPT !.pc = "set_threshold", !.k = 1]
  /\ UNCHANGED <<history, monitor_thread, stop_thread, known_issues,
                 last_alert_time, dock, now, threads, phase, ticks, warning_log>>

\* config["alert_thresholds"][key] = obs_data_get_double(settings, key),
\* one key per step.
SetThreshold ==
  /\ host.pc = "set_threshold"
  /\ LET key == ThresholdKeys[host.k]
     IN config' = [config EXCEPT !.alert_thresholds[key] = host.settings[key]]
  /\ host' = IF host.k < Len(ThresholdKeys)
                THEN [host EXCEPT !.k = host.k + 1]
                ELSE [host EXCEPT !.pc = "switch", !.k = 0]
  /\ UNCHANGED <<history, monitor_thread, stop_thread, known_issues,
                 last_alert_time, dock, now, threads, phase, ticks, warning_log>>

\* Mutant of start_monitoring: the flag is cleared and a thread started
\* without asking whether the last one is alive.
start_monitoring_unguarded ==
  \E t \in ThreadIds :
    /\ threads[t].pc = "unborn"
    /\ \A u \in ThreadIds : u < t => threads[u].pc # "unborn"
    /\ stop_thread' = FALSE
    /\ monitor_thread' = t
    /\ threads' = [threads EXCEPT ![t] = ThreadRec("loop")]

\* Mutant of start_monitoring: a thread that was asked to stop counts as
\* gone, whether or not it has exited.
start_monitoring_stoppedIsGone ==
  IF monitor_thread = NoThread \/ stop_thread \/ ~Alive(monitor_thread)
  THEN \E t \in ThreadIds :
         /\ threads[t].pc = "unborn"
         /\ \A u \in ThreadIds : u < t => threads[u].pc # "unborn"
         /\ stop_thread' = FALSE
         /\ monitor_thread' = t
         /\ threads' = [threads EXCEPT ![t] = ThreadRec("loop")]
  ELSE UNCHANGED <<stop_thread, monitor_thread, threads>>

\* start_monitoring(): a new thread unless the last one is alive.
start_monitoring ==
  IF monitor_thread = NoThread \/ ~Alive(monitor_thread)
  THEN \E t \in ThreadIds :
         /\ threads[t].pc = "unborn"
         /\ \A u \in ThreadIds : u < t => threads[u].pc # "unborn"
         /\ stop_thread' = FALSE
         /\ monitor_thread' = t
         /\ threads' = [threads EXCEPT ![t] = ThreadRec("loop")]
  ELSE UNCHANGED <<stop_thread, monitor_thread, threads>>

\* "Start or stop monitoring based on enabled state"
SwitchMonitoring ==
  /\ host.pc = "switch"
  /\ IF ~host.prev_enabled /\ config.enabled
     THEN /\ start_monitoring
          /\ host' = [host EXCEPT
               !.pc = "update_dock",
               !.log = Append(@,
                 IF monitor_thread = NoThread \/ ~Alive(monitor_thread)
                 THEN <<"info", "Desync detector started">>
                 ELSE <<"warning", "Monitoring already running">>)]
     ELSE /\ host' = IF host.prev_enabled /\ ~config.enabled
                       THEN [host EXCEPT !.pc = "stop", !.ret = "update_dock"]
                       ELSE [host EXCEPT !.pc = "update_dock"]
          /\ UNCHANGED <<stop_thread, monitor_thread, threads>>
  /\ UNCHANGED <<config, history, known_issues, last_alert_time, dock, now,
                 phase, ticks, warning_log>>

\* stop_monitoring(): "stop_thread = True" when the thread is alive, else
\* the warning.
StopMonitoring ==
  /\ host.pc = "stop"
  /\ IF MonitorAlive
     THEN /\ stop_thread' = TRUE
          /\ host' = [host EXCEPT !.pc = "join"]
     ELSE /\ stop_thread' = stop_thread
          /\ host' = [host EXCEPT
               !.pc = host.ret, !.ret = "",
               !.log = Append(@, <<"warning", "Monitoring not running">>)]
  /\ UNCHANGED <<config, history, monitor_thread, known_issues,
                 last_alert_time, dock, now, threads, phase, ticks, warning_log>>

\* monitor_thread.join(timeout=2.0) returns: the thread has exited, or the
\* two seconds are over.
JoinReturns ==
  /\ host.pc = "join"
  /\ host' = [host EXCEPT
       !.pc = host.ret, !.ret = "",
       !.log = Append(@, <<"info", "Desync detector stopped">>)]
  /\ UNCHANGED <<globals, now, threads, phase, ticks, warning_log>>

\* Mutant of HostUpdateDock: the issues are cleared once displayed.
HostUpdateDock_clearsIssues ==
  /\ host.pc = "update_dock"
  /\ host' = HostIdle
  /\ known_issues' = {}
  /\ UNCHANGED <<config, history, monitor_thread, stop_thread, last_alert_time,
                 dock, now, threads, phase, ticks, warning_log>>

\* update_dock_ui() at the end of script_update: reads known_issues and
\* history, writes the widget only.
HostUpdateDock ==
  /\ host.pc = "update_dock"
  /\ host' = HostIdle
  /\ UNCHANGED <<globals, now, threads, phase, ticks, warning_log>>

\* script_unload(): stop_monitoring() ...
ScriptUnload ==
  /\ phase = "loaded"
  /\ host.pc = "idle"
  /\ host' = [host EXCEPT !.pc = "stop", !.ret = "destroy_dock"]
  /\ UNCHANGED <<globals, now, threads, phase, ticks, warning_log>>

\* ... then obs_frontend_destroy_dock(h_dock).
DestroyDock ==
  /\ host.pc = "destroy_dock"
  /\ phase' = "unloaded"
  /\ host' = HostIdle
  /\ UNCHANGED <<globals, now, threads, ticks, warning_log>>

\* Mutant of NoData: "if not history", the dict itself, which always has
\* its seven keys.
NoData_dictTruthy(h) == DOMAIN h = {}

\* len(history["timestamp"]) == 0
NoData(h) == Len(h["timestamp"]) = 0

Min(a, b) == IF a <= b THEN a ELSE b

RECURSIVE SumSeq(_)
\* sum(seq)
SumSeq(seq) == IF seq = <<>> THEN 0 ELSE seq[1] + SumSeq(Tail(seq))

\* The fields generate_performance_report averages, in its order; the
\* first average runs over the pairs of dropped_frames and total_frames.
ReportKeys ==
  <<"dropped_frames", "render_time", "encoding_time", "cpu_usage",
    "memory_usage">>

\* The values the k-th sum adds up: d / max(1, t) * 100 over
\* zip(dropped_frames, total_frames), or the list of the field.
ReportTerms(h, k) ==
  IF k = 1
  THEN [ j \in 1..Min(Len(h["dropped_frames"]), Len(h["total_frames"])) |->
           DroppedPercent(h["dropped_frames"][j], h["total_frames"][j]) ]
  ELSE h[ReportKeys[k]]

\* The list whose length divides the k-th sum.
ReportDivisorKey(k) == IF k = 1 THEN "timestamp" ELSE ReportKeys[k]

\* on_generate_report_clicked -> generate_performance_report(): the warning
\* when there is no data, else on to the averages.
GenerateReport ==
  /\ phase = "loaded"
  /\ host.pc = "idle"
  /\ host' = IF NoData(history)
                THEN [host EXCEPT
                       !.pc = "report_return",
                       !.log = Append(@, <<"warning",
                                 "No performance data available yet.">>)]
                ELSE [host EXCEPT !.pc = "report_sum", !.k = 1]
  /\ UNCHANGED <<globals, now, threads, phase, ticks, warning_log>>

\* The numerator of the k-th average: sum(...).
ReportSum ==
  /\ host.pc = "report_sum"
  /\ LET terms == ReportTerms(history, host.k)
     IN host' = [host EXCEPT !.pc = "report_len", !.acc = SumSeq(terms),
                             !.summed = Len(terms)]
  /\ UNCHANGED <<globals, now, threads, phase, ticks, warning_log>>

\* The denominator of the k-th average: "/ len(...)"; ZeroDivisionError
\* when the list is empty.
ReportLen ==
  /\ host.pc = "report_len"
  /\ LET n == Len(history[ReportDivisorKey(host.k)])
         average == [ value |-> host.acc \div n, sum |-> host.acc,
                      summed |-> host.summed, divisor |-> n ]
     IN host' = IF n = 0
                  THEN [host EXCEPT !.pc = "report_return", !.raised = TRUE]
                  ELSE IF host.k < Len(ReportKeys)
                  THEN [host EXCEPT !.pc = "report_sum", !.k = host.k + 1,
                                    !.avg = Append(@, average)]
                  ELSE [host EXCEPT !.pc = "report_emit", !.k = 0,
                                    !.avg = Append(@, average)]
  /\ UNCHANGED <<globals, now, threads, phase, ticks, warning_log>>

\* "Generate report" and "Log the report": the period, the number of
\* samples, the averages to two decimals and the issues known.
ReportEmit ==
  /\ host.pc = "report_emit"
  /\ LET ts == history["timestamp"]
     IN host' = [host EXCEPT
          !.pc = "report_save",
          !.report = [ from |-> ts[1], to |-> ts[Len(ts)], samples |-> Len(ts),
                       averages |-> [ j \in 1..Len(host.avg) |->
                                        Format2(host.avg[j].value) ],
                       issues |-> known_issues ]]
  /\ UNCHANGED <<globals, now, threads, phase, ticks, warning_log>>

\* "Also save to file": the file is written, or the write fails and the
\* error is logged.
ReportSave(F) ==
  /\ host.pc = "report_save"
  /\ \E ok \in F :
       host' = [host EXCEPT
         !.pc = "report_return",
         !.saved = ok,
         !.log = Append(@,
           IF ok THEN <<"info", "Report saved to obs_performance_report.txt">>
           ELSE <<"error", "Failed to save report">>)]
  /\ UNCHANGED <<globals, now, threads, phase, ticks, warning_log>>

\* generate_performance_report returns, or its exception reaches the host.
ReportReturns ==
  /\ host.pc = "report_return"
  /\ host' = HostIdle
  /\ UNCHANGED <<globals, now, threads, phase, ticks, warning_log>>

\* ------------------------------------------------------ environments
\* What the metrics sources return on a tick.
Reading(rt, out, fd, tf, cpu, mem) ==
  [ render_time |-> rt, output |-> out, frames_dropped |-> fd,
    total_frames |-> tf, cpu_percent |-> cpu, memory_percent |-> mem ]

\* The settings the host passes to script_update.
Settings(en, ci, dfp, rl, el, cp, mp) ==
  [ enabled |-> en, check_interval |-> ci, dropped_frames_percent |-> dfp,
    render_lag_ms |-> rl, encoding_lag_ms |-> el, cpu_percent |-> cp,
    memory_percent |-> mp ]

\* A tick may start: the run's bound on ticks is not yet reached, or the
\* loop condition is false and the thread leaves.
MayTick(max) == ticks < max \/ stop_thread \/ ~config.enabled

\* The program with its host: monitoring switched on and off and the
\* interval changed at any time, the script unloaded, calls that fail.  With
\* these intervals the history is cut to 2 samples or to 1, fewer than
\* detect_issues needs, so no threshold is ever compared.
Readings == { Reading(10000, TRUE, 0, 100, 50000, 50000) }

HostSettings ==
  { Settings(TRUE, ci, 1000, 15000, 20000, 80000, 70000) : ci \in {300, 600} }
    \cup { Settings(FALSE, 600, 1000, 15000, 20000, 80000, 70000) }

\* The steps of poll thread t.
PollSteps(t, R, max) ==
  \/ MayTick(max) /\ LoopCheck(t)
  \/ GetStats(t, R)
  \/ QueryMetrics(t, R)
  \/ AppendSample(t)
  \/ ComputeMaxHistory(t)
  \/ TrimHistory(t)
  \/ DetectBegin(t)
  \/ ResolveIssues(t)
  \/ DockAndSleep(t)
  \/ TickFails(t)
  \/ HandleError(t)
  \/ Wake(t, 0)

\* The steps of the host thread.
HostSteps(S) ==
  \/ ScriptLoad({TRUE})
  \/ ScriptUpdate(S)
  \/ SetEnabled
  \/ SetInterval
  \/ SetThreshold
  \/ SwitchMonitoring
  \/ StopMonitoring
  \/ JoinReturns
  \/ HostUpdateDock
  \/ ScriptUnload
  \/ DestroyDock

Next ==
  \/ \E t \in ThreadIds : PollSteps(t, Readings, MaxTicks)
  \/ HostSteps(HostSettings)

Spec == Init /\ [][Next]_vars

\* The same program where the host only switches monitoring on and off, and
\* the operating system schedules a thread that can run: a poll thread that
\* is alive is not suspended for ever (its calls return, its sleep ends).
SwitchSettings ==
  { Settings(en, 600, 1000, 15000, 20000, 80000, 70000) : en \in BOOLEAN }

FairNext ==
  \/ \E t \in ThreadIds : PollSteps(t, Readings, MaxTicks)
  \/ HostSteps(SwitchSettings)

FairSpec ==
  /\ Init
  /\ [][FairNext]_vars
  /\ \A t \in ThreadIds : WF_vars(PollSteps(t, Readings, MaxTicks))

\* The poll loop left alone: the host loads the script and enables
\* monitoring once, then the loop ticks every check_interval seconds.  The
\* history holds 6 samples; the readings are a system with every metric
\* exactly at its threshold, a slow render with a busy CPU, and a slow
\* render alone whose value formats to the same text.
LoopReadings ==
  { Reading(15000, TRUE, 1, 100, 80000, 70000),
    Reading(16001, TRUE, 0, 100, 90004, 50000),
    Reading(16004, TRUE, 0, 100, 50000, 50000) }

LoopSettings == { Settings(TRUE, 100, 1000, 15000, 20000, 80000, 70000) }

LoopNext ==
  \/ ScriptLoad({TRUE})
  \/ monitor_thread = NoThread /\ ScriptUpdate(LoopSettings)
  \/ SetEnabled
  \/ SetInterval
  \/ SetThreshold
  \/ SwitchMonitoring
  \/ HostUpdateDock
  \/ \E t \in ThreadIds : MayTick(MaxLoopTicks) /\ LoopCheck(t)
  \/ \E t \in ThreadIds : GetStats(t, LoopReadings)
  \/ \E t \in ThreadIds : QueryMetrics(t, LoopReadings)
  \/ \E t \in ThreadIds : AppendSample(t)
  \/ \E t \in ThreadIds : ComputeMaxHistory(t)
  \/ \E t \in ThreadIds : TrimHistory(t)
  \/ \E t \in ThreadIds : DetectBegin(t)
  \/ \E t \in ThreadIds : CompareThreshold(t)
  \/ \E t \in ThreadIds : AlertIssue(t)
  \/ \E t \in ThreadIds : ResolveIssues(t)
  \/ \E t \in ThreadIds : DockAndSleep(t)
  \/ \E t \in ThreadIds : Wake(t, 0)

SpecLoop == Init /\ [][LoopNext]_vars

\* The poll loop with statements that fail: the host enables monitoring
\* once and may unload the script; every tick finds a slow render; once the
\* history has the size detect_issues needs, any statement of a tick may
\* raise.
FailReadings == { Reading(16004, TRUE, 0, 100, 50000, 50000) }

\* The history holds 5 samples.
FailSettings == { Settings(TRUE, 120, 1000, 15000, 20000, 80000, 70000) }

MayFail == Len(history["timestamp"]) >= MinSamples

\* The steps of poll thread t that the scheduler makes it take.
FailPoll(t) ==
  \/ MayTick(MaxFailTicks) /\ LoopCheck(t)
  \/ GetStats(t, FailReadings)
  \/ QueryMetrics(t, FailReadings)
  \/ AppendSample(t)
  \/ ComputeMaxHistory(t)
  \/ TrimHistory(t)
  \/ DetectBegin(t)
  \/ CompareThreshold(t)
  \/ AlertIssue(t)
  \/ ResolveIssues(t)
  \/ DockAndSleep(t)
  \/ HandleError(t)
  \/ Wake(t, 0)

FailNext ==
  \/ ScriptLoad({TRUE})
  \/ monitor_thread = NoThread /\ ScriptUpdate(FailSettings)
  \/ SetEnabled
  \/ SetInterval
  \/ SetThreshold
  \/ SwitchMonitoring
  \/ HostUpdateDock
  \/ ScriptUnload
  \/ StopMonitoring
  \/ JoinReturns
  \/ DestroyDock
  \/ \E t \in ThreadIds : FailPoll(t)
  \/ \E t \in ThreadIds : MayFail /\ StepFails(t)

FairFail ==
  /\ Init
  /\ [][FailNext]_vars
  /\ \A t \in ThreadIds : WF_vars(FailPoll(t))

\* The user at the settings panel while the poll loop runs: the settings are
\* saved with one of two threshold sets (monitoring enabled, 5 samples of
\* history) and the report button is clicked, before monitoring is started
\* and at any time from the last tick of the run on.  Every tick reads 5 % of
\* dropped frames, a render time above the first set's limit only and a CPU
\* load above the second set's limit only.
UserReadings == { Reading(16004, TRUE, 5, 100, 60000, 50000) }

UserSettings ==
  { Settings(TRUE, 120, 1000, 15000, 20000, 80000, 70000),
    Settings(TRUE, 120, 1000, 20000, 20000, 50000, 70000) }

UserActs == monitor_thread = NoThread \/ ticks >= MaxUserTicks

UserNext ==
  \/ ScriptLoad({TRUE})
  \/ UserActs /\ ScriptUpdate(UserSettings)
  \/ SetEnabled
  \/ SetInterval
  \/ SetThreshold
  \/ SwitchMonitoring
  \/ HostUpdateDock
  \/ UserActs /\ GenerateReport
  \/ ReportSum
  \/ ReportLen
  \/ ReportEmit
  \/ ReportSave(BOOLEAN)
  \/ ReportReturns
  \/ \E t \in ThreadIds : MayTick(MaxUserTicks) /\ LoopCheck(t)
  \/ \E t \in ThreadIds : GetStats(t, UserReadings)
  \/ \E t \in ThreadIds : QueryMetrics(t, UserReadings)
  \/ \E t \in ThreadIds : AppendSample(t)
  \/ \E t \in ThreadIds : ComputeMaxHistory(t)
  \/ \E t \in ThreadIds : TrimHistory(t)
  \/ \E t \in ThreadIds : DetectBegin(t)
  \/ \E t \in ThreadIds : CompareThreshold(t)
  \/ \E t \in ThreadIds : AlertIssue(t)
  \/ \E t \in ThreadIds : ResolveIssues(t)
  \/ \E t \in ThreadIds : DockAndSleep(t)
  \/ \E t \in ThreadIds : Wake(t, 0)

SpecUser == Init /\ [][UserNext]_vars

\* The poll loop left alone on readings that drift: a slow render with 5 %
\* of dropped frames, and a slower render measured while the host has no
\* output named default_stream (its counters, were they read, would show
\* 50 % of dropped frames).  The limits for dropped frames and encoding time
\* are 0; the history holds 6 samples.
DriftReadings ==
  { Reading(16004, TRUE, 5, 100, 50000, 50000),
    Reading(17000, FALSE, 50, 100, 50000, 50000) }

DriftSettings == { Settings(TRUE, 100, 0, 15000, 0, 80000, 70000) }

DriftNext ==
  \/ ScriptLoad({TRUE})
  \/ monitor_thread = NoThread /\ ScriptUpdate(DriftSettings)
  \/ SetEnabled
  \/ SetInterval
  \/ SetThreshold
  \/ SwitchMonitoring
  \/ HostUpdateDock
  \/ \E t \in ThreadIds : MayTick(MaxDriftTicks) /\ LoopCheck(t)
  \/ \E t \in ThreadIds : GetStats(t, DriftReadings)
  \/ \E t \in ThreadIds : QueryMetrics(t, DriftReadings)
  \/ \E t \in ThreadIds : AppendSample(t)
  \/ \E t \in ThreadIds : ComputeMaxHistory(t)
  \/ \E t \in ThreadIds : TrimHistory(t)
  \/ \E t \in ThreadIds : DetectBegin(t)
  \/ \E t \in ThreadIds : CompareThreshold(t)
  \/ \E t \in ThreadIds : AlertIssue(t)
  \/ \E t \in ThreadIds : ResolveIssues(t)
  \/ \E t \in ThreadIds : DockAndSleep(t)
  \/ \E t \in ThreadIds : Wake(t, 0)

SpecDrift == Init /\ [][DriftNext]_vars

\* detect_issues on its own: the poll thread about to evaluate a history
\* of 0 to 6 samples under two threshold sets.  The earlier samples breach
\* every threshold they can; the latest one has each metric at, just above
\* or well above a threshold, with or without a stream output.
DetectSamples ==
  { Reading(rt, out, fd, 100, cpu, mem) :
      rt \in {15000, 15001, 16004}, out \in BOOLEAN, fd \in {1, 2, 5},
      cpu \in {80000, 90004}, mem \in {70000, 70001} }

DetectThresholds ==
  { Settings(TRUE, 100, 1000, 15000, 20000, 80000, 70000),
    Settings(TRUE, 100, 2000, 15001, 0, 50000, 70001) }

\* The history after update_history recorded the readings rs one by one,
\* 100 seconds apart.
HistoryOf(rs) ==
  [ timestamp |-> [j \in 1..Len(rs) |-> 100 * j],
    dropped_frames |-> [j \in 1..Len(rs) |-> FramesRead(rs[j]).frames_dropped],
    total_frames |-> [j \in 1..Len(rs) |-> FramesRead(rs[j]).total_frames],
    render_time |-> [j \in 1..Len(rs) |-> rs[j].render_time],
    encoding_time |-> [j \in 1..Len(rs) |-> EncodingTime],
    cpu_usage |-> [j \in 1..Len(rs) |-> rs[j].cpu_percent],
    memory_usage |-> [j \in 1..Len(rs) |-> rs[j].memory_percent] ]

DetectInit ==
  /\ \E s \in DetectThresholds :
       config = [ enabled |-> TRUE, check_interval |-> s.check_interval,
                  alert_thresholds |->
                    [ key \in { ThresholdKeys[j] : j \in 1..Len(ThresholdKeys) }
                        |-> s[key] ] ]
  /\ \E n \in 0..6 : \E r \in DetectSamples :
       /\ history = HistoryOf([j \in 1..n |->
                       IF j = n THEN r
                       ELSE Reading(99000, TRUE, 50, 100, 99000, 99000)])
       /\ now = 100 * n
       /\ ticks = n
  /\ monitor_thread = 1
  /\ stop_thread = FALSE
  /\ known_issues = {}
  /\ last_alert_time = <<>>
  /\ dock = TRUE
  /\ threads = [ t \in ThreadIds |->
                   IF t = 1 THEN ThreadRec("detect") ELSE ThreadRec("unborn") ]
  /\ host = HostIdle
  /\ phase = "loaded"
  /\ warning_log = <<>>

DetectNext ==
  \/ \E t \in ThreadIds : DetectBegin(t)
  \/ \E t \in ThreadIds : CompareThreshold(t)

SpecDetect == DetectInit /\ [][DetectNext]_vars

\* ------------------------------------------------------------ claims

\* C1: the history never holds more than floor(600 / check_interval)
\* samples, check_interval being the interval now configured, also when a
\* settings update changed it between two ticks.  Stated for the states
\* between ticks: no thread is inside update_history and the host is idle.
C1_HistoryWithinCapacity ==
  (/\ host.pc = "idle"
   /\ \A t \in ThreadIds : threads[t].pc \notin {"append", "max_history", "trim"})
  => Len(history["timestamp"]) <= 600 \div config.check_interval

\* C2: update_history evicts first in, first out: when it returns, each
\* list is the longest suffix, of at most the capacity, of the list on entry
\* followed by the new value.
C2_FifoEviction ==
  \A t \in ThreadIds :
    threads[t].pc = "detect" =>
      \A k \in 1..Len(HistoryKeys) :
        LET th == threads[t]
            capacity == 600 \div config.check_interval
            full == th.history_on_entry[HistoryKeys[k]]
                      \o << SampleValue(th, k) >>
            kept == history[HistoryKeys[k]]
            dropped == Len(full) - Len(kept)
        IN /\ Len(kept) = (IF Len(full) < capacity THEN Len(full) ELSE capacity)
           /\ \A j \in 1..Len(kept) : kept[j] = full[dropped + j]

\* C2 witness: update_history returned after evicting the oldest sample of
\* a full history of distinct samples.
C2_Witness ==
  \E t \in ThreadIds :
    /\ threads[t].pc = "detect"
    /\ Len(threads[t].history_on_entry["timestamp"]) = 600 \div config.check_interval
    /\ Len(history["timestamp"]) = 600 \div config.check_interval
    /\ history["timestamp"][1] = threads[t].history_on_entry["timestamp"][2]
    /\ history["render_time"][1] # history["render_time"][2]

\* C3: the seven parallel lists of the history have the same length in
\* every state, the states in the middle of a tick included.
C3_EqualLengths ==
  \A k \in 1..Len(HistoryKeys) :
    Len(history[HistoryKeys[k]]) = Len(history["timestamp"])

\* C4: detect_issues returns the empty list when the history holds fewer
\* than 5 samples, whatever the thresholds and the samples.
C4_EmptyBeforeFiveSamples ==
  \A t \in ThreadIds :
    Len(history["timestamp"]) < 5 =>
      /\ threads[t].pc # "compare"
      /\ threads[t].issues = <<>>

\* C4 witness: detect_issues returned on 4 samples whose latest breaches
\* the render threshold.
C4_Witness ==
  \E t \in ThreadIds :
    /\ threads[t].pc = "alert"
    /\ Len(history["timestamp"]) = 4
    /\ history["render_time"][4] > config.alert_thresholds["render_lag_ms"]

\* C5: on 5 samples or more detect_issues returns, in the order drops,
\* render, encoding, CPU, memory, exactly one entry for each metric of the
\* latest sample that is strictly above its threshold, with the value
\* formatted to two decimals, and nothing else.
C5_LatestSampleAgainstThresholds ==
  \A t \in ThreadIds :
    (threads[t].pc = "alert" /\ Len(history["timestamp"]) >= 5) =>
      LET n == Len(history["timestamp"])
          total == history["total_frames"][n]
          value == << (history["dropped_frames"][n] * 100000)
                        \div (IF total >= 1 THEN total ELSE 1),
                      history["render_time"][n], history["encoding_time"][n],
                      history["cpu_usage"][n], history["memory_usage"][n] >>
          breached == { k \in 1..5 :
                          value[k] > config.alert_thresholds[ThresholdKeys[k]] }
          issues == threads[t].issues
      IN /\ Len(issues) = Cardinality(breached)
         /\ \A j \in 1..Len(issues) :
              \E k \in breached :
                /\ Cardinality({ m \in breached : m < k }) = j - 1
                /\ issues[j] = << IssueLabels[k], (value[k] + 5) \div 10 >>

\* C5 witness: detect_issues returned the drops and the CPU issue, in that
\* order, for a latest sample whose render time and memory equal their
\* thresholds, after earlier samples that breached every threshold.
C5_Witness ==
  \E t \in ThreadIds :
    /\ threads[t].pc = "alert"
    /\ Len(history["timestamp"]) = 6
    /\ history["render_time"][6] = config.alert_thresholds["render_lag_ms"]
    /\ history["memory_usage"][6] = config.alert_thresholds["memory_percent"]
    /\ history["render_time"][5] > config.alert_thresholds["render_lag_ms"]
    /\ threads[t].issues = << <<"Frame drops detected: %", 500>>,
                              <<"High CPU usage: %", 9000>> >>

\* C6: should_alert(text) answers false and leaves last_alert_time as it is
\* when text has an entry less than 300 seconds old; otherwise it answers
\* true (the warning is logged), sets the entry of text to the current time
\* and leaves every other entry as it is.
C6_ShouldAlert ==
  [][ \A t \in ThreadIds :
        ( /\ threads[t].pc = "alert"
          /\ threads'[t].i = threads[t].i + 1
          /\ threads[t].issues[threads[t].i] \in known_issues ) =>
          LET text == threads[t].issues[threads[t].i]
          IN IF text \in DOMAIN last_alert_time
                /\ now - last_alert_time[text] < 300
             THEN /\ last_alert_time' = last_alert_time
                  /\ threads'[t].warned = threads[t].warned
             ELSE /\ DOMAIN last_alert_time' = DOMAIN last_alert_time \cup {text}
                  /\ last_alert_time'[text] = now
                  /\ \A x \in DOMAIN last_alert_time \ {text} :
                       last_alert_time'[x] = last_alert_time[x]
                  /\ threads'[t].warned = Append(threads[t].warned, text)
    ]_vars

\* C6 witness: should_alert answered true for a text whose entry was exactly
\* 300 seconds old and set the entry to the current time, while another
\* entry exists.
C6_Witness ==
  \E t \in ThreadIds : \E j \in 1..Len(threads[t].calls) :
    LET call == threads[t].calls[j]
    IN /\ call.alert
       /\ call.before = now - 300
       /\ last_alert_time[call.issue] = now
       /\ Cardinality(DOMAIN last_alert_time) = 2

\* C7: while an issue text stays active over consecutive ticks, no "ISSUE
\* DETECTED" warning for it is logged less than 300 seconds after the
\* previous warning for it.
C7_NoRepeatWithinCooldown ==
  [][ \A t \in ThreadIds :
        ( /\ threads[t].pc = "alert"
          /\ Len(threads'[t].warned) = Len(threads[t].warned) + 1 ) =>
          LET text == threads'[t].warned[Len(threads'[t].warned)]
          IN (text \in known_issues /\ text \in DOMAIN warning_log)
               => now - warning_log[text] >= 300
    ]_vars

\* C8: when a tick has replaced known_issues, the issues it logged as
\* resolved are those known when the tick began and absent from the tick's
\* detection output, each logged once, and known_issues is the set of the
\* detection output.
C8_ResolvedAndKnown ==
  \A t \in ThreadIds :
    threads[t].pc = "dock" =>
      LET detected == { threads[t].issues[j] : j \in 1..Len(threads[t].issues) }
      IN /\ known_issues = detected
         /\ DOMAIN threads[t].resolved = threads[t].known_on_entry \ detected
         /\ \A x \in DOMAIN threads[t].resolved : threads[t].resolved[x] = 1

\* C8 witness: two issues were known when the tick began, the tick detected
\* one of them, logged the other as resolved and keeps the one detected.
C8_Witness ==
  \E t \in ThreadIds :
    /\ threads[t].pc = "dock"
    /\ Cardinality(threads[t].known_on_entry) = 2
    /\ Cardinality(known_issues) = 1
    /\ known_issues \subseteq threads[t].known_on_entry
    /\ DOMAIN threads[t].resolved = threads[t].known_on_entry \ known_issues

\* C9: once a settings update has switched monitoring on, the poll loop
\* runs for as long as enabled stays true and the script is loaded: with the
\* host idle, the thread of monitor_thread is alive.
C9_EnabledMeansRunning ==
  (phase = "loaded" /\ host.pc = "idle" /\ config.enabled) => MonitorAlive

\* C10: stop_monitoring returns whether or not the poll thread has exited;
\* a poll thread ends only at the check at the top of its loop; once the
\* stop is requested of a live thread the flag stays set until the thread
\* has exited, the thread starts no new tick, and it does exit.
C10_StopIsCooperative ==
  /\ [](host.pc = "join" => ENABLED JoinReturns)
  /\ [][ \A t \in ThreadIds :
           /\ (Alive(t) /\ ~Alive(t)') => threads[t].pc = "loop"
           /\ (stop_thread /\ monitor_thread = t /\ Alive(t)) =>
                /\ Alive(t)' => (stop_thread' /\ monitor_thread' = t)
                /\ threads'[t].pc = "stats" => threads[t].pc = "stats"
       ]_vars
  /\ \A t \in ThreadIds :
       (stop_thread /\ monitor_thread = t /\ Alive(t)) ~> ~Alive(t)

\* C10 witness: stop_monitoring has returned from the join and the script
\* is unloaded while the poll thread, asked to stop, is still asleep.
C10_Witness ==
  /\ phase = "unloaded"
  /\ stop_thread
  /\ MonitorAlive
  /\ threads[monitor_thread].pc = "sleeping"

\* C11: start and stop are idempotent.  start_monitoring called while the
\* poll thread is alive creates no thread, leaves monitor_thread and
\* stop_thread as they are and logs one warning; stop_monitoring called while
\* no poll thread is alive leaves monitor_thread and stop_thread as they are
\* and logs one warning.
C11_StartStopIdempotent ==
  [][ LET alive == monitor_thread # NoThread
                     /\ threads[monitor_thread].pc \notin {"unborn", "dead"}
          same == /\ monitor_thread' = monitor_thread
                  /\ stop_thread' = stop_thread
                  /\ threads' = threads
      IN /\ ( /\ host.pc = "switch" /\ host'.pc # "switch"
              /\ ~host.prev_enabled /\ config.enabled /\ alive ) =>
              /\ same
              /\ host'.log =
                   Append(host.log, <<"warning", "Monitoring already running">>)
         /\ ( host.pc = "stop" /\ host'.pc # "stop" /\ ~alive ) =>
              /\ same
              /\ host'.log =
                   Append(host.log, <<"warning", "Monitoring not running">>)
    ]_vars

\* C11 witness: script_unload called stop_monitoring after the poll thread
\* had exited and got the warning, with stop_thread still set and monitoring
\* enabled: the stop flag set by the last disable survived the enable that
\* followed, whose start_monitoring found the thread alive and did nothing.
C11_Witness ==
  /\ host.pc = "destroy_dock"
  /\ host.log = << <<"warning", "Monitoring not running">> >>
  /\ config.enabled
  /\ stop_thread
  /\ monitor_thread = 1
  /\ threads[1].pc = "dead"
  /\ threads[2].pc = "unborn"

\* C12: whatever the host does (load, settings updates that switch
\* monitoring on and off, joins that time out, unload), at most one poll
\* thread is alive; a thread is started only when every earlier one has
\* exited.
C12_AtMostOnePollThread ==
  Cardinality({ t \in ThreadIds : threads[t].pc \notin {"unborn", "dead"} }) <= 1

\* C12 witness: a second poll thread runs a tick after the first one, whose
\* stop was requested earlier, has exited.
C12_Witness ==
  /\ threads[1].pc = "dead"
  /\ threads[2].pc = "append"
  /\ monitor_thread = 2
  /\ ~stop_thread

\* C13: a failure raised by any statement of a tick does not end the poll
\* loop.  The handler logs the error and sleeps 5 seconds, not
\* check_interval; a poll thread ends only at the check at the top of the
\* loop, when a stop was requested or monitoring is disabled; after the
\* failure the thread comes back to that check, and from there it starts
\* another tick when monitoring is enabled and no stop was requested.
C13_FailureDoesNotEndLoop ==
  /\ [][ \A t \in ThreadIds :
           /\ (threads[t].pc = "except" /\ threads'[t] # threads[t]) =>
                /\ threads'[t].pc = "sleeping"
                /\ threads'[t].wake_at = now + 5
                /\ threads'[t].errors = threads[t].errors + 1
           /\ (threads[t].pc \notin {"unborn", "dead"} /\ threads'[t].pc = "dead") =>
                /\ threads[t].pc = "loop"
                /\ stop_thread \/ ~config.enabled
           /\ ( /\ threads[t].pc = "loop" /\ threads'[t].pc # "loop"
                /\ ~stop_thread /\ config.enabled ) =>
                threads'[t].pc = "stats"
       ]_vars
  /\ \A t \in ThreadIds :
       (threads[t].pc = "except") ~> (threads[t].pc = "loop")

\* C13 witness: the tick that began at 480 failed, the loop slept 5 seconds
\* and a further tick has begun at 485, monitoring being enabled and no stop
\* requested.
C13_Witness ==
  \E t \in ThreadIds :
    /\ threads[t].pc = "stats"
    /\ now = 485
    /\ ticks = 6
    /\ config.enabled
    /\ ~stop_thread

\* C14: generate_performance_report called while the history is empty logs
\* one warning and nothing else, emits no report line, writes no file and
\* leaves history, known_issues, last_alert_time and config as they are.
C14_EmptyReportIsNoOp ==
  /\ [][ ( /\ host.pc = "idle"
           /\ host'.pc \in {"report_return", "report_sum"}
           /\ Len(history["timestamp"]) = 0 ) =>
           /\ host'.pc = "report_return"
           /\ host'.log = << <<"warning", "No performance data available yet.">> >>
           /\ host'.report = <<>>
           /\ ~host'.saved
           /\ ~host'.raised
           /\ history' = history
           /\ known_issues' = known_issues
           /\ last_alert_time' = last_alert_time
           /\ config' = config
       ]_vars
  /\ [][ ( /\ host.pc = "report_return"
           /\ <<"warning", "No performance data available yet.">>
                = host.log[1] ) =>
           (host' # host => host'.pc = "idle")
       ]_vars

\* C14 witness: the report was asked for with an empty history and the call
\* is about to return with the warning alone.
C14_Witness ==
  /\ host.pc = "report_return"
  /\ host.log = << <<"warning", "No performance data available yet.">> >>
  /\ history["timestamp"] = <<>>
  /\ host.report = <<>>
  /\ ~host.saved

\* C15: every average of a report is the arithmetic mean of its field over
\* the samples that were summed: the sum divided by the number of samples
\* summed, to two decimals.
C15_AveragesAreMeans ==
  host.report # <<>> =>
    \A j \in 1..Len(host.report.averages) :
      /\ host.avg[j].summed > 0
      /\ host.report.averages[j] =
           ((host.avg[j].sum \div host.avg[j].summed) + 5) \div 10

\* C16: every evaluation by detect_issues uses the thresholds of one
\* settings update: the list it returns is the one the latest sample gives
\* under one of the threshold sets the host has passed, none of them giving
\* a list that mixes the limits of two sets.
C16_ThresholdsFromOneUpdate ==
  \A t \in ThreadIds :
    (threads[t].pc = "alert" /\ Len(history["timestamp"]) >= 5) =>
      LET n == Len(history["timestamp"])
          total == history["total_frames"][n]
          value == << (history["dropped_frames"][n] * 100000)
                        \div (IF total >= 1 THEN total ELSE 1),
                      history["render_time"][n], history["encoding_time"][n],
                      history["cpu_usage"][n], history["memory_usage"][n] >>
          breached(s) == SelectSeq(<<1, 2, 3, 4, 5>>,
                                   LAMBDA k : value[k] > s[ThresholdKeys[k]])
          expected(s) == [ j \in 1..Len(breached(s)) |->
                             << IssueLabels[breached(s)[j]],
                                (value[breached(s)[j]] + 5) \div 10 >> ]
      IN \E s \in UserSettings : threads[t].issues = expected(s)

\* C17: an issue is identified by its exact text.  When a metric breached
\* its threshold on the previous tick and breaches it on this one with
\* another two-decimal value, the tick logs "ISSUE DETECTED" for the new text
\* whatever entry last_alert_time holds for it, without calling should_alert
\* and without changing last_alert_time, and logs the previous text as
\* "ISSUE RESOLVED".
C17_IdentityIsExactText ==
  /\ [][ \A t \in ThreadIds :
           ( /\ threads[t].pc = "alert"
             /\ threads'[t].i = threads[t].i + 1
             /\ \E old \in threads[t].known_on_entry :
                  /\ old[1] = threads[t].issues[threads[t].i][1]
                  /\ old[2] # threads[t].issues[threads[t].i][2] ) =>
             /\ threads'[t].warned =
                  Append(threads[t].warned, threads[t].issues[threads[t].i])
             /\ threads'[t].calls = threads[t].calls
             /\ last_alert_time' = last_alert_time
       ]_vars
  /\ [](\A t \in ThreadIds :
          threads[t].pc = "dock" =>
            \A j \in 1..Len(threads[t].issues) :
              \A old \in threads[t].known_on_entry :
                (old[1] = threads[t].issues[j][1] /\ old[2] # threads[t].issues[j][2])
                  => /\ \E m \in 1..Len(threads[t].warned) :
                          threads[t].warned[m] = threads[t].issues[j]
                     /\ old \in DOMAIN threads[t].resolved)

\* C17 witness: the render time went from 17.00 ms back to 16.00 ms; the
\* tick logged the warning for the 16.00 text although its entry in
\* last_alert_time is 200 seconds old and unchanged, asked should_alert
\* nothing about it, and logged the 17.00 text as resolved.
C17_Witness ==
  \E t \in ThreadIds :
    /\ threads[t].pc = "dock"
    /\ <<"High render time: ms", 1700>> \in threads[t].known_on_entry
    /\ <<"High render time: ms", 1700>> \in DOMAIN threads[t].resolved
    /\ \E m \in 1..Len(threads[t].warned) :
         threads[t].warned[m] = <<"High render time: ms", 1600>>
    /\ <<"High render time: ms", 1600>> \in DOMAIN last_alert_time
    /\ last_alert_time[<<"High render time: ms", 1600>>] = now - 200
    /\ \A m \in 1..Len(threads[t].calls) :
         threads[t].calls[m].issue # <<"High render time: ms", 1600>>

\* C18: a tick that finds no output named default_stream does not fail; it
\* records dropped_frames = 0 and total_frames = 1 and the other metrics as
\* measured, and, the limit for dropped frames being 0 or more, it yields no
\* frame-drop issue.
C18_NoOutputNoDrops ==
  \A t \in ThreadIds :
    /\ threads[t].pc # "except"
    /\ threads[t].errors = 0
    /\ ( /\ threads[t].pc \in {"detect", "compare", "alert", "dock"}
         /\ ~threads[t].output ) =>
         LET n == Len(history["timestamp"])
         IN /\ config.alert_thresholds["dropped_frames_percent"] >= 0
            /\ history["dropped_frames"][n] = 0
            /\ history["total_frames"][n] = 1
            /\ history["timestamp"][n] = threads[t].ts
            /\ history["render_time"][n] = threads[t].render_time
            /\ history["cpu_usage"][n] = threads[t].cpu_percent
            /\ history["memory_usage"][n] = threads[t].memory_percent
            /\ \A j \in 1..Len(threads[t].issues) :
                 threads[t].issues[j][1] # "Frame drops detected: %"
            /\ threads[t].pc = "dock" =>
                 \A x \in known_issues : x[1] # "Frame drops detected: %"

\* C18 witness: a tick without the output has ended its detection on a full
\* history with the limit for dropped frames at 0: the frame-drop issue of
\* the tick before is resolved and the slow render is reported.
C18_Witness ==
  \E t \in ThreadIds :
    /\ threads[t].pc = "dock"
    /\ ~threads[t].output
    /\ Len(history["timestamp"]) = 6
    /\ config.alert_thresholds["dropped_frames_percent"] = 0
    /\ <<"Frame drops detected: %", 500>> \in DOMAIN threads[t].resolved
    /\ threads[t].issues = << <<"High render time: ms", 1700>> >>

\* C19: every recorded sample has encoding_time = 0 and, the limit for the
\* encoding time being 0 or more, no "High encoding time" issue is returned
\* by detect_issues, logged, or held in known_issues.
C19_EncodingNeverFires ==
  LET encoding(x) == x[1] = "High encoding time: ms"
  IN /\ config.alert_thresholds["encoding_lag_ms"] >= 0
     /\ \A j \in 1..Len(history["encoding_time"]) : history["encoding_time"][j] = 0
     /\ \A x \in known_issues : ~encoding(x)
     /\ \A x \in DOMAIN warning_log : ~encoding(x)
     /\ \A x \in DOMAIN last_alert_time : ~encoding(x)
     /\ \A t \in ThreadIds :
          /\ \A j \in 1..Len(threads[t].issues) : ~encoding(threads[t].issues[j])
          /\ \A j \in 1..Len(threads[t].warned) : ~encoding(threads[t].warned[j])

\* C19 witness: detect_issues has compared the encoding time of the latest
\* of 6 samples with a limit of 0 and returned the other breaches only.
C19_Witness ==
  \E t \in ThreadIds :
    /\ threads[t].pc = "alert"
    /\ Len(history["encoding_time"]) = 6
    /\ config.alert_thresholds["encoding_lag_ms"] = 0
    /\ threads[t].issues = << <<"Frame drops detected: %", 500>>,
                              <<"High render time: ms", 1600>> >>

\* C20: only the poll thread writes the monitoring state.  No step of
\* script_update, of update_dock_ui or of generate_performance_report changes
\* history, known_issues or last_alert_time; the steps of update_dock_ui and
\* of generate_performance_report change neither config nor the thread
\* variables; and no step of the program removes an entry of
\* last_alert_time.
C20_OnlyPollThreadWrites ==
  /\ [][ host' # host =>
           /\ history' = history
           /\ known_issues' = known_issues
           /\ last_alert_time' = last_alert_time
       ]_vars
  /\ [][ ( /\ host' # host
           /\ \/ host.pc \in {"update_dock", "report_sum", "report_len",
                              "report_emit", "report_save", "report_return"}
              \/ host'.pc \in {"report_sum", "report_return"} ) =>
           /\ config' = config
           /\ monitor_thread' = monitor_thread
           /\ stop_thread' = stop_thread
           /\ threads' = threads
       ]_vars
  /\ [][ \A x \in DOMAIN last_alert_time : x \in DOMAIN last_alert_time' ]_vars

\* C20 witness: a report has been written after a settings update replaced
\* the thresholds under which the sixth tick found its issues, with the
\* history full, two issues known and an entry in last_alert_time.
C20_Witness ==
  /\ host.pc = "report_return"
  /\ host.saved
  /\ Len(history["memory_usage"]) = 5
  /\ known_issues = { <<"Frame drops detected: %", 500>>,
                      <<"High render time: ms", 1600>> }
  /\ config.alert_thresholds["render_lag_ms"] = 20000
  /\ config.alert_thresholds["cpu_percent"] = 50000
  /\ <<"Frame drops detected: %", 500>> \in DOMAIN last_alert_time

====
